---- MODULE Spec2Model ----
(***************************************************************************)
(* Agent tools of openclaw: github, elevenlabs, linear and openai.  Each   *)
(* tool's execute(callId, args) reads `action`, reads its credential from  *)
(* process.env, dispatches on the action, awaits one (or two) fetches and  *)
(* returns a {content, details} envelope.                                  *)
(*                                                                         *)
(* Strings the program builds (messages, URLs, texts) are sequences of     *)
(* string tokens; concatenation is \o, "contains X" is token membership.   *)
(* JavaScript values are records [t, s, n] tagged with their typeof.       *)
(***************************************************************************)
EXTENDS Integers, Sequences, FiniteSets, TLC

VARIABLES name, env, inv, calls, envChanges, peer

vars == <<name, env, inv, calls, envChanges, peer>>

----------------------------------------------------------------------------
(* Bounds of the model *)

MaxCalls == 2
MaxEnvChanges == 1
MaxAudioLen == 77

----------------------------------------------------------------------------
(* JavaScript values *)

Undef == [t |-> "undefined", s |-> "", n |-> 0]
Str(x) == [t |-> "string", s |-> x, n |-> 0]
Num(k) == [t |-> "number", s |-> "", n |-> k]

\* JavaScript truthiness of a value: `!x` is ~Truthy(x)
Truthy(v) == \/ v.t = "string" /\ v.s # ""
             \/ v.t = "number" /\ v.n # 0

\* params[key] on a mapping that may lack the key
Get(params, key) == IF key \in DOMAIN params THEN params[key] ELSE Undef

\* a || dflt on an optional string
OrDefault(v, dflt) == IF Truthy(v) THEN v.s ELSE dflt

\* (x as number) ?? dflt, rendered as it is serialised
NullishOr(v, dflt) == IF v.t = "undefined" THEN dflt ELSE ToString(v.n)

\* an optional value as it is serialised
Opt(v) == IF v.t = "undefined" THEN "undefined"
          ELSE IF v.t = "number" THEN ToString(v.n) ELSE v.s

Contains(seq, tok) == \E i \in 1..Len(seq) : seq[i] = tok

Min(a, b) == IF a < b THEN a ELSE b

----------------------------------------------------------------------------
(* The tools, their declared actions and their credentials *)

Tools == {"github", "elevenlabs", "linear", "openai"}

GitHubActions == {"getRepo", "listIssues", "getIssue", "createIssue", "listPRs",
                  "getPR", "searchCode", "searchRepos", "getUser", "listGists"}

ElevenLabsActions == {"textToSpeech", "listVoices", "getVoice", "speechToSpeech",
                      "getModels", "getHistory"}

LinearActions == {"listIssues", "getIssue", "createIssue", "updateIssue",
                  "listProjects", "listTeams", "searchIssues"}

OpenAIActions == {"chat", "embedding", "moderation", "transcribe"}

DeclaredActions(tool) ==
    CASE tool = "github" -> GitHubActions
      [] tool = "elevenlabs" -> ElevenLabsActions
      [] tool = "linear" -> LinearActions
      [] tool = "openai" -> OpenAIActions

Provider(tool) ==
    CASE tool = "github" -> "GitHub"
      [] tool = "elevenlabs" -> "ElevenLabs"
      [] tool = "linear" -> "Linear"
      [] tool = "openai" -> "OpenAI"

DEFAULT_VOICE_ID == "21m00Tcm4TlvDq8ikWAM"
DEFAULT_MODEL_ID == "eleven_multilingual_v2"

----------------------------------------------------------------------------
(* readStringParam of ./common.js: the reader of one string parameter.     *)
(* A value that is missing, not a string or empty is no value; when the    *)
(* parameter is required that is a thrown error naming the parameter.      *)

readStringParam(params, key, required) ==
    LET raw == Get(params, key) IN
    IF raw.t = "string" /\ raw.s # ""
    THEN [threw |-> FALSE, msg |-> <<>>, value |-> raw]
    ELSE IF required
         THEN [threw |-> TRUE, msg |-> <<key, " required">>, value |-> Undef]
         ELSE [threw |-> FALSE, msg |-> <<>>, value |-> Undef]

----------------------------------------------------------------------------
(* Envelopes.  details is a mapping from keys to token sequences.          *)

NoEnvelope == [content |-> <<>>, details |-> <<>>]

TextBlock(text) == [type |-> "text", text |-> text]

MissingCredentialEnvelope(tool) ==
    CASE tool = "github" ->
           [content |-> <<TextBlock(<<"GitHub token not configured. Set GITHUB_TOKEN.">>)>>,
            details |-> ("error" :> <<"missing_token">>)]
      [] tool = "elevenlabs" ->
           [content |-> <<TextBlock(<<"ElevenLabs API key not configured. Set ELEVENLABS_API_KEY.">>)>>,
            details |-> ("error" :> <<"missing_api_key">>)]
      [] tool = "linear" ->
           [content |-> <<TextBlock(<<"Linear API key not configured. Set LINEAR_API_KEY.">>)>>,
            details |-> ("error" :> <<"missing_api_key">>)]
      [] tool = "openai" ->
           [content |-> <<TextBlock(<<"OpenAI API key not configured. Set OPENAI_API_KEY.">>)>>,
            details |-> ("error" :> <<"missing_api_key">>)]

UnknownActionEnvelope_AsCaught(action) ==
    [content |-> <<TextBlock(<<"Unknown action: ", action>>)>>,
     details |-> ("action" :> <<action>>) @@ ("error" :> <<"Unknown action: ", action>>)]

UnknownActionEnvelope(action) ==
    [content |-> <<TextBlock(<<"Unknown action: ", action>>)>>,
     details |-> ("error" :> <<"unknown_action">>)]

\* JSON.stringify(result, null, 2); result is the token sequence of a parsed value
PrettyJson(result) == <<"JSON.stringify(">> \o result \o <<", null, 2)">>

SuccessEnvelope(action, result) ==
    [content |-> <<TextBlock(PrettyJson(result))>>,
     details |-> ("action" :> <<action>>) @@ ("success" :> <<"true">>)]

CatchEnvelope_NoAction(tool, action, message) ==
    [content |-> <<TextBlock(<<Provider(tool), " error: ">> \o message)>>,
     details |-> ("error" :> message)]

CatchEnvelope(tool, action, message) ==
    [content |-> <<TextBlock(<<Provider(tool), " error: ">> \o message)>>,
     details |-> ("action" :> <<action>>) @@ ("error" :> message)]

----------------------------------------------------------------------------
(* What the synchronous part of a dispatch branch ends in: a thrown error, *)
(* the default branch, one provider request, or the fetch of audioUrl      *)
(* followed later by the upload.                                           *)

NoRequest == [target |-> "none", method |-> "", url |-> <<>>, cred |-> <<>>,
              body |-> <<>>]

ThrowPlan(msg) == [kind |-> "throw", msg |-> msg, req |-> NoRequest, upload |-> NoRequest]
UnknownPlan == [kind |-> "unknown", msg |-> <<>>, req |-> NoRequest, upload |-> NoRequest]
RequestPlan(req) == [kind |-> "request", msg |-> <<>>, req |-> req, upload |-> NoRequest]
TwoStepPlan(req, upload) == [kind |-> "fetchAudio", msg |-> <<>>, req |-> req, upload |-> upload]

\* fetch(audioUrl): a bare GET without credential
AudioFetch(audioUrl) ==
    [target |-> "audioUrl", method |-> "GET", url |-> <<audioUrl>>, cred |-> <<>>,
     body |-> <<>>]

\* encodeURIComponent on the query strings of the model
encodeURIComponent(s) == IF s = "a b" THEN "a%20b" ELSE s

----------------------------------------------------------------------------
(* github *)

githubRequest(endpoint, token, method, body) ==
    [target |-> "provider", method |-> method,
     url |-> <<"https://api.github.com">> \o endpoint,
     cred |-> <<"Bearer ", token>>,
     body |-> body]

ownerRepoMissing(owner, repo) == ~Truthy(owner) \/ ~Truthy(repo)

numberMissing_NoCheck(number) == FALSE

numberMissing(number) == ~Truthy(number)

\* `${number}` of params.number
NumberText(number) == IF number.t = "number" THEN ToString(number.n) ELSE number.s

githubPlan(action, params, token) ==
    LET owner == readStringParam(params, "owner", FALSE).value
        repo == readStringParam(params, "repo", FALSE).value
        state == OrDefault(readStringParam(params, "state", FALSE).value, "open")
        number == Get(params, "number")
        title == readStringParam(params, "title", TRUE)
        body == readStringParam(params, "body", FALSE).value
        query == readStringParam(params, "query", TRUE)
        username == readStringParam(params, "username", FALSE).value
        needOwnerRepo == ThrowPlan(<<"owner", " and ", "repo", " are required for ", action>>)
        needNumber == ThrowPlan(<<"number", " is required for ", action>>)
    IN
    CASE action = "getRepo" ->
           IF ownerRepoMissing(owner, repo) THEN needOwnerRepo
           ELSE RequestPlan(githubRequest(<<"/repos/", owner.s, "/", repo.s>>, token, "GET", <<>>))
      [] action = "listIssues" ->
           IF ownerRepoMissing(owner, repo) THEN needOwnerRepo
           ELSE RequestPlan(githubRequest(
                  <<"/repos/", owner.s, "/", repo.s, "/issues?state=", state, "&per_page=30">>,
                  token, "GET", <<>>))
      [] action = "getIssue" ->
           IF ownerRepoMissing(owner, repo) THEN needOwnerRepo
           ELSE IF numberMissing(number) THEN needNumber
           ELSE RequestPlan(githubRequest(
                  <<"/repos/", owner.s, "/", repo.s, "/issues/", NumberText(number)>>,
                  token, "GET", <<>>))
      [] action = "createIssue" ->
           IF ownerRepoMissing(owner, repo) THEN needOwnerRepo
           ELSE IF title.threw THEN ThrowPlan(title.msg)
           ELSE RequestPlan(githubRequest(
                  <<"/repos/", owner.s, "/", repo.s, "/issues">>, token, "POST",
                  <<"title", title.value.s, "body", Opt(body)>>))
      [] action = "listPRs" ->
           IF ownerRepoMissing(owner, repo) THEN needOwnerRepo
           ELSE RequestPlan(githubRequest(
                  <<"/repos/", owner.s, "/", repo.s, "/pulls?state=", state, "&per_page=30">>,
                  token, "GET", <<>>))
      [] action = "getPR" ->
           IF ownerRepoMissing(owner, repo) THEN needOwnerRepo
           ELSE IF numberMissing(number) THEN needNumber
           ELSE RequestPlan(githubRequest(
                  <<"/repos/", owner.s, "/", repo.s, "/pulls/", NumberText(number)>>,
                  token, "GET", <<>>))
      [] action = "searchCode" ->
           IF query.threw THEN ThrowPlan(query.msg)
           ELSE RequestPlan(githubRequest(
                  <<"/search/code?q=", encodeURIComponent(query.value.s), "&per_page=30">>,
                  token, "GET", <<>>))
      [] action = "searchRepos" ->
           IF query.threw THEN ThrowPlan(query.msg)
           ELSE RequestPlan(githubRequest(
                  <<"/search/repositories?q=", encodeURIComponent(query.value.s), "&per_page=30">>,
                  token, "GET", <<>>))
      [] action = "getUser" ->
           IF Truthy(username)
           THEN RequestPlan(githubRequest(<<"/users/", username.s>>, token, "GET", <<>>))
           ELSE RequestPlan(githubRequest(<<"/user">>, token, "GET", <<>>))
      [] action = "listGists" ->
           IF Truthy(username)
           THEN RequestPlan(githubRequest(<<"/users/", username.s, "/gists?per_page=30">>,
                                          token, "GET", <<>>))
           ELSE RequestPlan(githubRequest(<<"/gists?per_page=30">>, token, "GET", <<>>))
      [] OTHER -> UnknownPlan

----------------------------------------------------------------------------
(* linear *)

\* Tokens that open a JSON object member, that is, that begin with a
\* double-quoted key.
JsonMemberStarts == {"\"team\": { \"id\": { \"eq\": \"", "\"project\": { \"id\": { \"eq\": \""}

\* JSON.parse of an object text: after "{" comes "}" or a member whose key
\* is double-quoted; anything else is a SyntaxError.
JSONparse(text) ==
    IF /\ Len(text) >= 2
       /\ text[1] = "{"
       /\ text[Len(text)] = "}"
       /\ (Len(text) = 2 \/ text[2] \in JsonMemberStarts)
    THEN [threw |-> FALSE, msg |-> <<>>, value |-> text]
    ELSE [threw |-> TRUE,
          msg |-> <<"Expected property name or '}' in JSON at position 1">>,
          value |-> <<>>]

linearGraphQLRequest(query, variables, apiKey) ==
    [target |-> "provider", method |-> "POST",
     url |-> <<"https://api.linear.app/graphql">>,
     cred |-> <<apiKey>>,
     body |-> <<"query", query, "variables">> \o variables]

\* the `filter` string of listIssues: the project restriction overwrites
\* the team restriction
listIssuesFilter(teamId, projectId) ==
    IF Truthy(projectId) THEN <<"project: { id: { eq: \"", projectId.s, "\" } }">>
    ELSE IF Truthy(teamId) THEN <<"team: { id: { eq: \"", teamId.s, "\" } }">>
    ELSE <<>>

linearPlan(action, params, apiKey) ==
    LET teamIdOpt == readStringParam(params, "teamId", FALSE).value
        projectId == readStringParam(params, "projectId", FALSE).value
        issueId == readStringParam(params, "issueId", TRUE)
        teamId == readStringParam(params, "teamId", TRUE)
        titleReq == readStringParam(params, "title", TRUE)
        titleOpt == readStringParam(params, "title", FALSE).value
        description == readStringParam(params, "description", FALSE).value
        stateId == readStringParam(params, "stateId", FALSE).value
        priority == Get(params, "priority")
        query == readStringParam(params, "query", TRUE)
        filter == listIssuesFilter(teamIdOpt, projectId)
        parsed == JSONparse(<<"{">> \o filter \o <<"}">>)
    IN
    CASE action = "listIssues" ->
           IF filter # <<>> /\ parsed.threw THEN ThrowPlan(parsed.msg)
           ELSE RequestPlan(linearGraphQLRequest("issues",
                  <<"filter">> \o (IF filter # <<>> THEN parsed.value ELSE <<"undefined">>),
                  apiKey))
      [] action = "getIssue" ->
           IF issueId.threw THEN ThrowPlan(issueId.msg)
           ELSE RequestPlan(linearGraphQLRequest("issue", <<"id", issueId.value.s>>, apiKey))
      [] action = "createIssue" ->
           IF teamId.threw THEN ThrowPlan(teamId.msg)
           ELSE IF titleReq.threw THEN ThrowPlan(titleReq.msg)
           ELSE RequestPlan(linearGraphQLRequest("issueCreate",
                  <<"input", "teamId", teamId.value.s, "title", titleReq.value.s,
                    "description", Opt(description), "priority", Opt(priority),
                    "projectId", Opt(projectId)>>,
                  apiKey))
      [] action = "updateIssue" ->
           IF issueId.threw THEN ThrowPlan(issueId.msg)
           ELSE RequestPlan(linearGraphQLRequest("issueUpdate",
                  <<"id", issueId.value.s, "input">>
                    \o (IF Truthy(titleOpt) THEN <<"title", titleOpt.s>> ELSE <<>>)
                    \o (IF Truthy(description) THEN <<"description", description.s>> ELSE <<>>)
                    \o (IF Truthy(stateId) THEN <<"stateId", stateId.s>> ELSE <<>>)
                    \o (IF priority.t # "undefined" THEN <<"priority", Opt(priority)>> ELSE <<>>),
                  apiKey))
      [] action = "listProjects" ->
           RequestPlan(linearGraphQLRequest("projects", <<>>, apiKey))
      [] action = "listTeams" ->
           RequestPlan(linearGraphQLRequest("teams", <<>>, apiKey))
      [] action = "searchIssues" ->
           IF query.threw THEN ThrowPlan(query.msg)
           ELSE RequestPlan(linearGraphQLRequest("searchIssues", <<"query", query.value.s>>,
                                                 apiKey))
      [] OTHER -> UnknownPlan

----------------------------------------------------------------------------
(* elevenlabs *)

elevenlabsRequest(endpoint, apiKey, method, body, isFormData) ==
    [target |-> "provider", method |-> method,
     url |-> <<"https://api.elevenlabs.io/v1">> \o endpoint,
     cred |-> <<apiKey>>,
     body |-> IF body = <<>> THEN <<>>
              ELSE <<IF isFormData THEN "FormData" ELSE "application/json">> \o body]

elevenlabsPlan(action, params, apiKey) ==
    LET text == readStringParam(params, "text", TRUE)
        voiceIdOpt == OrDefault(readStringParam(params, "voiceId", FALSE).value,
                                DEFAULT_VOICE_ID)
        voiceIdReq == readStringParam(params, "voiceId", TRUE)
        modelIdOpt == readStringParam(params, "modelId", FALSE).value
        stability == NullishOr(Get(params, "stability"), "0.5")
        similarityBoost == NullishOr(Get(params, "similarityBoost"), "0.75")
        style == NullishOr(Get(params, "style"), "0")
        outputFormat == OrDefault(readStringParam(params, "outputFormat", FALSE).value,
                                  "mp3_44100_128")
        audioUrl == readStringParam(params, "audioUrl", TRUE)
    IN
    CASE action = "textToSpeech" ->
           IF text.threw THEN ThrowPlan(text.msg)
           ELSE RequestPlan(elevenlabsRequest(
                  <<"/text-to-speech/", voiceIdOpt, "?output_format=", outputFormat>>,
                  apiKey, "POST",
                  <<"text", text.value.s, "model_id", OrDefault(modelIdOpt, DEFAULT_MODEL_ID),
                    "stability", stability, "similarity_boost", similarityBoost,
                    "style", style, "use_speaker_boost", "true">>,
                  FALSE))
      [] action = "listVoices" ->
           RequestPlan(elevenlabsRequest(<<"/voices">>, apiKey, "GET", <<>>, FALSE))
      [] action = "getVoice" ->
           IF voiceIdReq.threw THEN ThrowPlan(voiceIdReq.msg)
           ELSE RequestPlan(elevenlabsRequest(<<"/voices/", voiceIdReq.value.s>>, apiKey,
                                              "GET", <<>>, FALSE))
      [] action = "speechToSpeech" ->
           IF audioUrl.threw THEN ThrowPlan(audioUrl.msg)
           ELSE TwoStepPlan(
                  AudioFetch(audioUrl.value.s),
                  elevenlabsRequest(<<"/speech-to-speech/", voiceIdOpt>>, apiKey, "POST",
                    <<"audio", "audio.mp3", "model_id",
                      OrDefault(modelIdOpt, "eleven_english_sts_v2"),
                      "stability", stability, "similarity_boost", similarityBoost>>,
                    TRUE))
      [] action = "getModels" ->
           RequestPlan(elevenlabsRequest(<<"/models">>, apiKey, "GET", <<>>, FALSE))
      [] action = "getHistory" ->
           RequestPlan(elevenlabsRequest(<<"/history">>, apiKey, "GET", <<>>, FALSE))
      [] OTHER -> UnknownPlan

----------------------------------------------------------------------------
(* openai *)

openaiRequest(endpoint, apiKey, body) ==
    [target |-> "provider", method |-> "POST",
     url |-> <<"https://api.openai.com/v1">> \o endpoint,
     cred |-> <<"Bearer ", apiKey>>,
     body |-> <<"application/json">> \o body]

\* the inline fetch of the transcribe branch
whisperUpload(apiKey) ==
    [target |-> "provider", method |-> "POST",
     url |-> <<"https://api.openai.com/v1/audio/transcriptions">>,
     cred |-> <<"Bearer ", apiKey>>,
     body |-> <<"FormData", "file", "audio.mp3", "model", "whisper-1">>]

openaiPlan(action, params, apiKey) ==
    LET prompt == readStringParam(params, "prompt", TRUE)
        model == readStringParam(params, "model", FALSE).value
        systemPrompt == readStringParam(params, "systemPrompt", FALSE).value
        text == readStringParam(params, "text", TRUE)
        audioUrl == readStringParam(params, "audioUrl", TRUE)
    IN
    CASE action = "chat" ->
           IF prompt.threw THEN ThrowPlan(prompt.msg)
           ELSE RequestPlan(openaiRequest(<<"/chat/completions">>, apiKey,
                  <<"model", OrDefault(model, "gpt-4o-mini"), "messages">>
                    \o (IF Truthy(systemPrompt) THEN <<"system", systemPrompt.s>> ELSE <<>>)
                    \o <<"user", prompt.value.s>>))
      [] action = "embedding" ->
           IF text.threw THEN ThrowPlan(text.msg)
           ELSE RequestPlan(openaiRequest(<<"/embeddings">>, apiKey,
                  <<"model", OrDefault(model, "text-embedding-3-small"),
                    "input", text.value.s>>))
      [] action = "moderation" ->
           IF text.threw THEN ThrowPlan(text.msg)
           ELSE RequestPlan(openaiRequest(<<"/moderations">>, apiKey,
                                          <<"input", text.value.s>>))
      [] action = "transcribe" ->
           IF audioUrl.threw THEN ThrowPlan(audioUrl.msg)
           ELSE TwoStepPlan(AudioFetch(audioUrl.value.s), whisperUpload(apiKey))
      [] OTHER -> UnknownPlan

Plan(tool, action, params, apiKey) ==
    CASE tool = "github" -> githubPlan(action, params, apiKey)
      [] tool = "elevenlabs" -> elevenlabsPlan(action, params, apiKey)
      [] tool = "linear" -> linearPlan(action, params, apiKey)
      [] tool = "openai" -> openaiPlan(action, params, apiKey)

----------------------------------------------------------------------------
(* What the network can answer *)

Statuses == {200, 404, 500}

ContentTypes == {"null", "application/json", "audio/mpeg"}

ErrorBodies == {"Not Found", "rate limit exceeded"}

\* parsed JSON bodies: `data` (or "undefined" when absent) and `errors`
\* (empty when absent)
JsonBodies ==
    [data : {"undefined", "{nodes}"},
     errors : {<<>>, <<"Entity not found">>, <<"Entity not found", "Forbidden">>}]

JsonBodiesFor(tool) ==
    IF tool = "linear" THEN JsonBodies
    ELSE {j \in JsonBodies : j.data = "{nodes}" /\ Len(j.errors) < 2}

JsonTokens(j) == <<"{data:", j.data, "errors:">> \o j.errors \o <<"}">>

AudioLens == {0, 1, 2, 3, 72, 75, MaxAudioLen}

AudioBody(n) == [i \in 1..n |-> (i * 37 + 11) % 256]

AudioBodies == {AudioBody(n) : n \in AudioLens}

FetchFailed == <<"fetch failed">>
BodyReadFailed == <<"terminated">>
JsonSyntaxError == <<"Unexpected token < in JSON at position 0">>

----------------------------------------------------------------------------
(* Buffer.from(buffer).toString("base64") *)

Base64Alphabet ==
    <<"A","B","C","D","E","F","G","H","I","J","K","L","M","N","O","P",
      "Q","R","S","T","U","V","W","X","Y","Z","a","b","c","d","e","f",
      "g","h","i","j","k","l","m","n","o","p","q","r","s","t","u","v",
      "w","x","y","z","0","1","2","3","4","5","6","7","8","9","+","/">>

Base64(bytes) ==
    LET n == Len(bytes)
        byte(i) == IF i <= n THEN bytes[i] ELSE 0
        char(k) ==
            LET g == (k - 1) \div 4
                pos == (k - 1) % 4
                triple == byte(3 * g + 1) * 65536 + byte(3 * g + 2) * 256 + byte(3 * g + 3)
                sextet == CASE pos = 0 -> triple \div 262144
                            [] pos = 1 -> (triple \div 4096) % 64
                            [] pos = 2 -> (triple \div 64) % 64
                            [] pos = 3 -> triple % 64
            IN IF (pos = 2 /\ 3 * g + 2 > n) \/ (pos = 3 /\ 3 * g + 3 > n)
               THEN "="
               ELSE Base64Alphabet[sextet + 1]
    IN [k \in 1..(4 * ((n + 2) \div 3)) |-> char(k)]

PreviewLen == 100

Preview_Whole(audio) == audio

\* audio.substring(0, 100)
Preview(audio) == SubSeq(audio, 1, Min(PreviewLen, Len(audio)))

----------------------------------------------------------------------------
(* Transport helpers after the response head has arrived *)

ResponseOk(status) == status >= 200 /\ status <= 299

\* contentType?.includes("audio")
IncludesAudio(ctype) == ctype = "audio/mpeg"

ApiErrorMessage_NoBody(tool, action, status, error) ==
    <<Provider(tool) \o " API error (", ToString(status), ")">>

\* the Error thrown for a non-2xx provider response, once its text is read
ApiErrorMessage(tool, action, status, error) ==
    <<(IF tool = "openai" /\ action = "transcribe"
       THEN "Whisper" ELSE Provider(tool)) \o " API error (",
      ToString(status), "): ", error>>

AudioFetchFailed_Never(status) == FALSE

AudioFetchFailed(status) == ~ResponseOk(status)

AudioFetchMessage(status) == <<"Failed to fetch audio: ", ToString(status)>>

GraphQLFailed_Never(json) == FALSE

\* result.errors && result.errors.length > 0
GraphQLFailed(json) == Len(json.errors) > 0

GraphQLErrorMessage(json) == <<"Linear GraphQL error: ", json.errors[1]>>

AudioEnvelope(action, audio, ctype) ==
    [content |->
       <<TextBlock(
           (IF action = "textToSpeech"
            THEN <<"Audio generated successfully (", ctype, "). Base64 audio data: ">>
            ELSE <<"Speech-to-speech conversion successful. Base64 audio: ">>)
           \o Preview(audio) \o <<"... (truncated)">>)>>,
     details |-> ("action" :> <<action>>) @@ ("success" :> <<"true">>)
                 @@ ("hasAudio" :> <<"true">>)]

----------------------------------------------------------------------------
(* Argument mappings handed to execute.  Only the parameters the chosen    *)
(* branch reads are varied; each is absent, empty or given.                *)

ReadParams(tool, action) ==
    CASE tool = "github" ->
           (CASE action \in {"getRepo"} -> {"owner", "repo"}
              [] action \in {"listIssues", "listPRs"} -> {"owner", "repo", "state"}
              [] action \in {"getIssue", "getPR"} -> {"owner", "repo", "number"}
              [] action = "createIssue" -> {"owner", "repo", "title", "body"}
              [] action \in {"searchCode", "searchRepos"} -> {"query"}
              [] action \in {"getUser", "listGists"} -> {"username"}
              [] OTHER -> {"owner"})
      [] tool = "elevenlabs" ->
           (CASE action = "textToSpeech" ->
                   {"text", "voiceId", "modelId", "stability", "similarityBoost", "style",
                    "outputFormat"}
              [] action = "getVoice" -> {"voiceId"}
              [] action = "speechToSpeech" ->
                   {"audioUrl", "voiceId", "modelId", "stability", "similarityBoost"}
              [] OTHER -> {"voiceId"})
      [] tool = "linear" ->
           (CASE action = "listIssues" -> {"teamId", "projectId"}
              [] action = "getIssue" -> {"issueId"}
              [] action = "createIssue" ->
                   {"teamId", "title", "description", "priority", "projectId"}
              [] action = "updateIssue" ->
                   {"issueId", "title", "description", "stateId", "priority"}
              [] action = "searchIssues" -> {"query"}
              [] OTHER -> {"teamId"})
      [] tool = "openai" ->
           (CASE action = "chat" -> {"prompt", "model", "systemPrompt"}
              [] action = "embedding" -> {"text", "model"}
              [] action = "moderation" -> {"text"}
              [] action = "transcribe" -> {"audioUrl"}
              [] OTHER -> {"prompt"})

NumericParams == {"number", "priority", "stability", "similarityBoost", "style"}

\* parameters some branch reads with { required: true } or checks itself
CheckedParams == {"owner", "repo", "number", "title", "query", "text", "voiceId",
                  "audioUrl", "issueId", "teamId", "prompt"}

Given(param) ==
    CASE param \in NumericParams -> Num(7)
      [] param = "query" -> Str("a b")
      [] param = "audioUrl" -> Str("https://cdn.example/a.mp3")
      [] param = "owner" -> Str("octocat")
      [] param = "repo" -> Str("hello")
      [] param = "teamId" -> Str("T1")
      [] param = "projectId" -> Str("P1")
      [] param = "title" -> Str("Bug")
      [] OTHER -> Str("given")

Empty(param) == IF param \in NumericParams THEN Num(0) ELSE Str("")

ParamValue(param, choice) ==
    CASE choice = "absent" -> Undef
      [] choice = "empty" -> Empty(param)
      [] choice = "given" -> Given(param)

Choices(param) ==
    IF param \in CheckedParams THEN {"absent", "empty", "given"} ELSE {"absent", "given"}

ActionValues(tool) ==
    {Str(a) : a \in DeclaredActions(tool)} \cup {Str("bogus"), Str(""), Undef, Num(7)}

ArgsOf(tool) ==
    UNION { LET P == ReadParams(tool, av.s) IN
            { [k \in P \cup {"action"} |->
                 IF k = "action" THEN av ELSE ParamValue(k, c[k])] :
              c \in {d \in [P -> {"absent", "empty", "given"}] :
                       \A q \in P : d[q] \in Choices(q)} } :
            av \in ActionValues(tool) }

CredValues == {Undef, Str(""), Str("key1"), Str("key2")}

----------------------------------------------------------------------------
(* One invocation of execute *)

NoResponse == [status |-> 0, ctype |-> "null"]

NoJson == [data |-> "undefined", errors |-> <<>>]

Idle ==
    [pc |-> "idle", tool |-> "none", args |-> <<>>, action |-> "", apiKey |-> "",
     envAtCall |-> Undef, requests |-> <<>>, upload |-> NoRequest,
     audioStatus |-> 0, resp |-> NoResponse, text |-> "", json |-> NoJson,
     bytes |-> <<>>, rejected |-> "none",
     outcome |-> "none", envelope |-> NoEnvelope, raised |-> <<>>]

\* an error thrown inside the try block: the catch clause builds the envelope
Thrown(i, message) ==
    [i EXCEPT !.pc = "done", !.outcome = "returned",
              !.envelope = CatchEnvelope(i.tool, i.action, message)]

Returned(i, envelope) ==
    [i EXCEPT !.pc = "done", !.outcome = "returned", !.envelope = envelope]

\* an error thrown outside the try block rejects the promise of execute
Raised(i, message) ==
    [i EXCEPT !.pc = "done", !.outcome = "raised", !.raised = message]

Send(i, req, pc) == [i EXCEPT !.pc = pc, !.requests = Append(@, req)]

ApplyPlan(i, plan) ==
    CASE plan.kind = "throw" -> Thrown(i, plan.msg)
      [] plan.kind = "unknown" -> Returned(i, UnknownActionEnvelope(i.action))
      [] plan.kind = "request" -> Send(i, plan.req, "awaitFetch")
      [] plan.kind = "fetchAudio" ->
           [Send(i, plan.req, "awaitAudioFetch") EXCEPT !.upload = plan.upload]

\* execute up to its first await (or its return)
Start(tool, args, credential) ==
    LET action == readStringParam(args, "action", TRUE)
        i == [Idle EXCEPT !.tool = tool, !.args = args, !.envAtCall = credential]
    IN IF action.threw THEN Raised(i, action.msg)
       ELSE IF ~Truthy(credential) THEN Returned(i, MissingCredentialEnvelope(tool))
       ELSE ApplyPlan([i EXCEPT !.action = action.value.s, !.apiKey = credential.s],
                      Plan(tool, action.value.s, args, credential.s))

\* a non-2xx response makes the request go out again
Responded_Retry(i, status, ctype) ==
    IF ~ResponseOk(status) /\ Len(i.requests) < 3
    THEN Send([i EXCEPT !.resp = [status |-> status, ctype |-> ctype]],
              i.requests[Len(i.requests)], "awaitFetch")
    ELSE [i EXCEPT !.resp = [status |-> status, ctype |-> ctype],
                   !.pc = IF ~ResponseOk(status) THEN "awaitText"
                          ELSE IF i.tool = "elevenlabs" /\ IncludesAudio(ctype)
                               THEN "awaitBuffer"
                               ELSE "awaitJson"]

\* the response head of the provider request: status and content-type
Responded(i, status, ctype) ==
    [i EXCEPT !.resp = [status |-> status, ctype |-> ctype],
              !.pc = IF ~ResponseOk(status) THEN "awaitText"
                     ELSE IF i.tool = "elevenlabs" /\ IncludesAudio(ctype)
                          THEN "awaitBuffer"
                          ELSE "awaitJson"]

\* response.text() of a non-2xx response resolved
TextRead(i, error) ==
    Thrown([i EXCEPT !.text = error],
           ApiErrorMessage(i.tool, i.action, i.resp.status, error))

\* `action` kept in a variable of the module instead of a local of execute:
\* the invocation in flight beside this one has overwritten it
JsonRead_SharedAction(i, json) ==
    LET other == IF i = inv THEN peer ELSE inv
        j == [i EXCEPT !.json = json,
                       !.action = IF other.action # "" THEN other.action ELSE @]
    IN IF i.tool = "linear"
       THEN IF GraphQLFailed(json) THEN Thrown(j, GraphQLErrorMessage(json))
            ELSE Returned(j, SuccessEnvelope(j.action, <<json.data>>))
       ELSE Returned(j, SuccessEnvelope(j.action, JsonTokens(json)))

\* response.json() resolved
JsonRead(i, json) ==
    LET j == [i EXCEPT !.json = json] IN
    IF i.tool = "linear"
    THEN IF GraphQLFailed(json) THEN Thrown(j, GraphQLErrorMessage(json))
         ELSE Returned(j, SuccessEnvelope(i.action, <<json.data>>))
    ELSE Returned(j, SuccessEnvelope(i.action, JsonTokens(json)))

\* response.arrayBuffer() resolved (elevenlabs only)
BufferRead(i, bytes) ==
    LET j == [i EXCEPT !.bytes = bytes]
        audio == Base64(bytes)
    IN IF i.action \in {"textToSpeech", "speechToSpeech"}
       THEN Returned(j, AudioEnvelope(i.action, audio, i.resp.ctype))
       ELSE Returned(j, SuccessEnvelope(i.action,
                          <<"{audio:">> \o audio \o <<"contentType:", i.resp.ctype, "}">>))

\* the response head of fetch(audioUrl)
AudioResponded(i, status) ==
    LET j == [i EXCEPT !.audioStatus = status] IN
    IF AudioFetchFailed(status) THEN Thrown(j, AudioFetchMessage(status))
    ELSE [j EXCEPT !.pc = "awaitBlob"]

\* the upload takes the credential from process.env when it is sent
BlobRead_RereadEnv(i) ==
    Send(i, [i.upload EXCEPT !.cred = [@ EXCEPT ![Len(@)] = env[name].s]],
         "awaitFetch")

\* audioResponse.blob() resolved: the multipart upload is sent
BlobRead(i) == Send(i, i.upload, "awaitFetch")

----------------------------------------------------------------------------
(* Actions *)

\* A behaviour follows one tool object (the result of one create...Tool
\* call, `name` being its name) and process.env, of which the tool reads
\* its own variable only.
Init ==
    /\ name \in Tools
    /\ env \in {[t \in Tools |-> c] : c \in {Undef, Str("key1")}}
    /\ inv = Idle
    /\ peer = Idle
    /\ calls = 0
    /\ envChanges = 0

\* the caller invokes tool.execute(callId, args)
Execute ==
    /\ inv.pc = "idle"
    /\ calls < MaxCalls
    /\ \E args \in ArgsOf(name) : inv' = Start(name, args, env[name])
    /\ calls' = calls + 1
    /\ UNCHANGED <<name, env, envChanges, peer>>

\* a pending fetch rejects (network failure)
FetchRejects ==
    /\ inv.pc \in {"awaitFetch", "awaitAudioFetch"}
    /\ inv' = Thrown([inv EXCEPT !.rejected = inv.pc], FetchFailed)
    /\ UNCHANGED <<name, env, calls, envChanges, peer>>

FetchResponds(status, ctype) ==
    /\ inv.pc = "awaitFetch"
    /\ inv' = Responded(inv, status, ctype)
    /\ UNCHANGED <<name, env, calls, envChanges, peer>>

TextResolves(error) ==
    /\ inv.pc = "awaitText"
    /\ inv' = TextRead(inv, error)
    /\ UNCHANGED <<name, env, calls, envChanges, peer>>

JsonResolves ==
    /\ inv.pc = "awaitJson"
    /\ \E json \in JsonBodiesFor(name) : inv' = JsonRead(inv, json)
    /\ UNCHANGED <<name, env, calls, envChanges, peer>>

\* the body is not JSON
JsonRejects ==
    /\ inv.pc = "awaitJson"
    /\ inv' = Thrown([inv EXCEPT !.rejected = inv.pc], JsonSyntaxError)
    /\ UNCHANGED <<name, env, calls, envChanges, peer>>

BufferResolves(bytes) ==
    /\ inv.pc = "awaitBuffer"
    /\ inv' = BufferRead(inv, bytes)
    /\ UNCHANGED <<name, env, calls, envChanges, peer>>

\* reading a body fails midway
BodyRejects ==
    /\ inv.pc \in {"awaitText", "awaitBuffer", "awaitBlob"}
    /\ inv' = Thrown([inv EXCEPT !.rejected = inv.pc], BodyReadFailed)
    /\ UNCHANGED <<name, env, calls, envChanges, peer>>

AudioFetchResponds(status) ==
    /\ inv.pc = "awaitAudioFetch"
    /\ inv' = AudioResponded(inv, status)
    /\ UNCHANGED <<name, env, calls, envChanges, peer>>

BlobResolves ==
    /\ inv.pc = "awaitBlob"
    /\ inv' = BlobRead(inv)
    /\ UNCHANGED <<name, env, calls, envChanges, peer>>

\* the caller has the settled promise; nothing of the invocation is kept
Settle ==
    /\ inv.pc = "done"
    /\ inv' = Idle
    /\ UNCHANGED <<name, env, calls, envChanges, peer>>

\* the tool's credential variable of process.env is set, emptied or deleted
SetEnv(value) ==
    /\ envChanges < MaxEnvChanges
    /\ env[name] # value
    /\ env' = [env EXCEPT ![name] = value]
    /\ envChanges' = envChanges + 1
    /\ UNCHANGED <<name, inv, calls, peer>>

Next ==
    \/ Execute
    \/ FetchRejects
    \/ \E status \in Statuses, ctype \in ContentTypes : FetchResponds(status, ctype)
    \/ \E error \in ErrorBodies : TextResolves(error)
    \/ JsonResolves
    \/ JsonRejects
    \/ \E bytes \in AudioBodies : BufferResolves(bytes)
    \/ BodyRejects
    \/ \E status \in Statuses : AudioFetchResponds(status)
    \/ BlobResolves
    \/ Settle
    \/ \E value \in CredValues : SetEnv(value)

Spec == Init /\ [][Next]_vars

----------------------------------------------------------------------------
(* Two invocations in flight at once.  execute is an async function: each  *)
(* call has its own locals (action, the credential, response, result) and  *)
(* runs until its next await; the event loop interleaves the calls at      *)
(* those awaits.  `inv` is a call of the tool `name`, `peer` a call of any *)
(* of the four tools.                                                      *)

Slots == {1, 2}

Slot(s) == IF s = 1 THEN inv ELSE peer

\* the step of one call writes the locals of that call only
Put(s, i) ==
    IF s = 1 THEN inv' = i /\ peer' = peer ELSE peer' = i /\ inv' = inv

ConcActions(tool) ==
    CASE tool = "github" -> {"getRepo"}
      [] tool = "elevenlabs" -> {"textToSpeech", "speechToSpeech"}
      [] tool = "linear" -> {"listIssues"}
      [] tool = "openai" -> {"chat", "transcribe"}

\* per action, the call with every parameter given and the call with none
ConcArgs(tool) ==
    { [k \in ReadParams(tool, a) \cup {"action"} |->
         IF k = "action" THEN Str(a) ELSE ParamValue(k, c)] :
      a \in ConcActions(tool), c \in {"absent", "given"} }

ConcStatuses == {200, 500}
ConcContentTypes == {"application/json", "audio/mpeg"}
ConcAudioLens == {3, MaxAudioLen}

ConcExecute(s) ==
    /\ Slot(s).pc = "idle"
    /\ calls < MaxCalls
    /\ \E tool \in (IF s = 1 THEN {name} ELSE Tools) :
         \E args \in ConcArgs(tool) : Put(s, Start(tool, args, env[tool]))
    /\ calls' = calls + 1
    /\ UNCHANGED <<name, env, envChanges>>

ConcFetchRejects(s) ==
    /\ Slot(s).pc \in {"awaitFetch", "awaitAudioFetch"}
    /\ Put(s, Thrown([Slot(s) EXCEPT !.rejected = Slot(s).pc], FetchFailed))
    /\ UNCHANGED <<name, env, calls, envChanges>>

ConcFetchResponds(s) ==
    /\ Slot(s).pc = "awaitFetch"
    /\ \E status \in ConcStatuses, ctype \in ConcContentTypes :
         Put(s, Responded(Slot(s), status, ctype))
    /\ UNCHANGED <<name, env, calls, envChanges>>

ConcTextResolves(s) ==
    /\ Slot(s).pc = "awaitText"
    /\ Put(s, TextRead(Slot(s), "rate limit exceeded"))
    /\ UNCHANGED <<name, env, calls, envChanges>>

ConcJsonResolves(s) ==
    /\ Slot(s).pc = "awaitJson"
    /\ \E json \in JsonBodiesFor(Slot(s).tool) : Put(s, JsonRead(Slot(s), json))
    /\ UNCHANGED <<name, env, calls, envChanges>>

ConcJsonRejects(s) ==
    /\ Slot(s).pc = "awaitJson"
    /\ Put(s, Thrown([Slot(s) EXCEPT !.rejected = Slot(s).pc], JsonSyntaxError))
    /\ UNCHANGED <<name, env, calls, envChanges>>

ConcBufferResolves(s) ==
    /\ Slot(s).pc = "awaitBuffer"
    /\ \E n \in ConcAudioLens : Put(s, BufferRead(Slot(s), AudioBody(n)))
    /\ UNCHANGED <<name, env, calls, envChanges>>

ConcBodyRejects(s) ==
    /\ Slot(s).pc \in {"awaitText", "awaitBuffer", "awaitBlob"}
    /\ Put(s, Thrown([Slot(s) EXCEPT !.rejected = Slot(s).pc], BodyReadFailed))
    /\ UNCHANGED <<name, env, calls, envChanges>>

ConcAudioFetchResponds(s) ==
    /\ Slot(s).pc = "awaitAudioFetch"
    /\ \E status \in ConcStatuses : Put(s, AudioResponded(Slot(s), status))
    /\ UNCHANGED <<name, env, calls, envChanges>>

ConcBlobResolves(s) ==
    /\ Slot(s).pc = "awaitBlob"
    /\ Put(s, BlobRead(Slot(s)))
    /\ UNCHANGED <<name, env, calls, envChanges>>

ConcSettle(s) ==
    /\ Slot(s).pc = "done"
    /\ Put(s, Idle)
    /\ UNCHANGED <<name, env, calls, envChanges>>

NextConc ==
    \/ \E s \in Slots : ConcExecute(s)
    \/ \E s \in Slots : ConcFetchRejects(s)
    \/ \E s \in Slots : ConcFetchResponds(s)
    \/ \E s \in Slots : ConcTextResolves(s)
    \/ \E s \in Slots : ConcJsonResolves(s)
    \/ \E s \in Slots : ConcJsonRejects(s)
    \/ \E s \in Slots : ConcBufferResolves(s)
    \/ \E s \in Slots : ConcBodyRejects(s)
    \/ \E s \in Slots : ConcAudioFetchResponds(s)
    \/ \E s \in Slots : ConcBlobResolves(s)
    \/ \E s \in Slots : ConcSettle(s)
    \/ \E value \in CredValues : SetEnv(value)

SpecConc == Init /\ [][NextConc]_vars

----------------------------------------------------------------------------
(* The network at work: every pending fetch is answered or rejected and    *)
(* every body read finishes; the continuation of the awaiting call then    *)
(* runs (nothing else holds the event loop).                               *)

NetworkStep ==
    \/ FetchRejects
    \/ \E status \in Statuses, ctype \in ContentTypes : FetchResponds(status, ctype)
    \/ \E error \in ErrorBodies : TextResolves(error)
    \/ JsonResolves
    \/ JsonRejects
    \/ \E bytes \in AudioBodies : BufferResolves(bytes)
    \/ BodyRejects
    \/ \E status \in Statuses : AudioFetchResponds(status)
    \/ BlobResolves

SpecLive == Spec /\ WF_vars(NetworkStep)

----------------------------------------------------------------------------
(* Vocabulary of the properties *)

Done == inv.pc = "done"

ReturnedEnvelope == inv.outcome = "returned"

Details == inv.envelope.details

Text == inv.envelope.content[1].text

IsErrorEnvelope == ReturnedEnvelope /\ "error" \in DOMAIN Details

IsSuccessEnvelope ==
    /\ ReturnedEnvelope
    /\ "success" \in DOMAIN Details
    /\ Details["success"] = <<"true">>

CredentialSet == Truthy(inv.envAtCall)

\* the `action` argument is a declared action of the tool
DeclaredAction ==
    /\ Get(inv.args, "action").t = "string"
    /\ Get(inv.args, "action").s \in DeclaredActions(inv.tool)

\* the `action` argument is a non-empty string outside the declared set
UndeclaredAction ==
    /\ Get(inv.args, "action").t = "string"
    /\ Get(inv.args, "action").s # ""
    /\ Get(inv.args, "action").s \notin DeclaredActions(inv.tool)

\* the parameters an action cannot do without
RequiredParams(t, action) ==
    CASE t = "github" ->
           (CASE action \in {"getRepo", "listIssues", "listPRs"} -> {"owner", "repo"}
              [] action \in {"getIssue", "getPR"} -> {"owner", "repo", "number"}
              [] action = "createIssue" -> {"owner", "repo", "title"}
              [] action \in {"searchCode", "searchRepos"} -> {"query"}
              [] OTHER -> {})
      [] t = "linear" ->
           (CASE action \in {"getIssue", "updateIssue"} -> {"issueId"}
              [] action = "createIssue" -> {"teamId", "title"}
              [] action = "searchIssues" -> {"query"}
              [] OTHER -> {})
      [] t = "elevenlabs" ->
           (CASE action = "textToSpeech" -> {"text"}
              [] action = "getVoice" -> {"voiceId"}
              [] action = "speechToSpeech" -> {"audioUrl"}
              [] OTHER -> {})
      [] t = "openai" ->
           (CASE action = "chat" -> {"prompt"}
              [] action \in {"embedding", "moderation"} -> {"text"}
              [] action = "transcribe" -> {"audioUrl"}
              [] OTHER -> {})
      [] OTHER -> {}

Required == RequiredParams(inv.tool, Get(inv.args, "action").s)

Omitted(p) == Get(inv.args, p).t = "undefined"

Present(p) == Truthy(Get(inv.args, p))

TwoStepFlow ==
    \/ inv.tool = "elevenlabs" /\ inv.action = "speechToSpeech"
    \/ inv.tool = "openai" /\ inv.action = "transcribe"

\* fetch(audioUrl) answered non-2xx or was rejected
AudioFetchFailure ==
    \/ inv.audioStatus # 0 /\ ~(inv.audioStatus \in 200..299)
    \/ inv.rejected = "awaitAudioFetch"

\* every request of the invocation was answered 2xx with a parsable body
\* that reports no GraphQL error
UpstreamAllFine ==
    /\ inv.rejected = "none"
    /\ inv.audioStatus \in {0} \cup (200..299)
    /\ inv.resp.status \in {0} \cup (200..299)
    /\ inv.json.errors = <<>>

----------------------------------------------------------------------------
(* C1: on every path - any argument mapping, any credential state, any     *)
(* upstream outcome - execute returns one envelope and never raises an     *)
(* exception to its caller.                                                *)
C1_NeverRaises == Done => ReturnedEnvelope

(* C2: with the credential variable unset or empty when execute is called, *)
(* whatever the arguments, the invocation returns the missing-credential   *)
(* envelope (missing_token for github, missing_api_key for the others) and *)
(* sends no request.                                                       *)
C2_MissingCredential ==
    (Done /\ ~CredentialSet) =>
        /\ ReturnedEnvelope
        /\ IsErrorEnvelope
        /\ Details["error"] =
             (IF inv.tool = "github" THEN <<"missing_token">> ELSE <<"missing_api_key">>)
        /\ inv.requests = <<>>

(* C3 as stated: an action invoked with one of its required parameters     *)
(* omitted returns an envelope whose details.error names that parameter,   *)
(* and sends no request.                                                   *)
C3_OmittedParamNamed ==
    \A p \in Required :
        (Done /\ DeclaredAction /\ Omitted(p)) =>
            /\ IsErrorEnvelope
            /\ Contains(Details["error"], p)
            /\ inv.requests = <<>>

(* C3 amended: with the credential set and the action's other required     *)
(* parameters present, an action invoked with one required parameter       *)
(* omitted returns an envelope whose details.error names that parameter,   *)
(* and sends no request.                                                   *)
C3_OnlyOmittedParamNamed ==
    \A p \in Required :
        (/\ Done /\ DeclaredAction /\ CredentialSet
         /\ Omitted(p)
         /\ \A q \in Required \ {p} : Present(q)) =>
            /\ IsErrorEnvelope
            /\ Contains(Details["error"], p)
            /\ Contains(Text, p)
            /\ inv.requests = <<>>

C3_Witness ==
    \E p \in Required :
        /\ Done /\ DeclaredAction /\ CredentialSet
        /\ Omitted(p)
        /\ Required \ {p} # {}
        /\ \A q \in Required \ {p} : Present(q)
        /\ IsErrorEnvelope
        /\ Contains(Details["error"], p)

(* C4: a declared action with all its required parameters present, any     *)
(* optional parameters, the credential set and every upstream request      *)
(* answered 2xx with a parsable body yields details.success = true and     *)
(* details.action equal to the requested action.                           *)
C4_SuccessOnValidCall ==
    (/\ Done /\ DeclaredAction /\ CredentialSet
     /\ \A q \in Required : Present(q)
     /\ UpstreamAllFine) =>
        /\ IsSuccessEnvelope
        /\ "action" \in DOMAIN Details
        /\ Details["action"] = <<Get(inv.args, "action").s>>

(* C5: when the provider answers a request with a non-2xx status S and     *)
(* body text B, the invocation returns an error envelope whose text and    *)
(* details.error both contain S and B, and that request is the last one    *)
(* of the invocation.                                                      *)
C5_UpstreamErrorReported ==
    (Done /\ inv.resp.status # 0 /\ ~(inv.resp.status \in 200..299) /\ inv.text # "") =>
        /\ IsErrorEnvelope
        /\ "success" \notin DOMAIN Details
        /\ Contains(Details["error"], ToString(inv.resp.status))
        /\ Contains(Details["error"], inv.text)
        /\ Contains(Text, ToString(inv.resp.status))
        /\ Contains(Text, inv.text)
        /\ Len(inv.requests) = (IF TwoStepFlow THEN 2 ELSE 1)
        /\ inv.requests[Len(inv.requests)].target = "provider"

C5_Witness ==
    /\ Done
    /\ inv.resp.status = 404
    /\ inv.text = "Not Found"
    /\ IsErrorEnvelope
    /\ Contains(Text, "404") /\ Contains(Text, "Not Found")

(* C6: when the Linear GraphQL endpoint answers 2xx with a JSON body whose *)
(* errors array is non-empty, the envelope is an error envelope without    *)
(* details.success, its error message contains the first error's message,  *)
(* and nothing of the body's data appears in it, data present or not.      *)
C6_GraphQLErrorsFail ==
    (Done /\ inv.tool = "linear" /\ inv.json.errors # <<>>) =>
        /\ IsErrorEnvelope
        /\ "success" \notin DOMAIN Details
        /\ Contains(Details["error"], inv.json.errors[1])
        /\ Contains(Text, inv.json.errors[1])
        /\ inv.json.data # "undefined" =>
             /\ ~Contains(Text, inv.json.data)
             /\ \A k \in DOMAIN Details : ~Contains(Details[k], inv.json.data)

C6_Witness ==
    /\ Done /\ inv.tool = "linear"
    /\ inv.json.errors = <<"Entity not found", "Forbidden">>
    /\ inv.json.data = "{nodes}"
    /\ IsErrorEnvelope
    /\ Contains(Details["error"], "Entity not found")

(* C7: every envelope returned on any path has a details mapping with the  *)
(* key `action` and exactly one of the keys `success` and `error`.         *)
C7_EnvelopeShape ==
    ReturnedEnvelope =>
        /\ "action" \in DOMAIN Details
        /\ ("success" \in DOMAIN Details) # ("error" \in DOMAIN Details)

SpeechSynthesised ==
    /\ Done
    /\ inv.tool = "elevenlabs" /\ inv.action = "textToSpeech"
    /\ inv.resp.status \in 200..299
    /\ inv.resp.ctype = "audio/mpeg"
    /\ inv.rejected = "none"

\* the text is the audio confirmation around the first k characters of audio
TextHasPreview(audio, k) ==
    Text = <<"Audio generated successfully (", inv.resp.ctype, "). Base64 audio data: ">>
             \o SubSeq(audio, 1, k) \o <<"... (truncated)">>

HasAudioFlag ==
    /\ IsSuccessEnvelope
    /\ "hasAudio" \in DOMAIN Details
    /\ Details["hasAudio"] = <<"true">>

(* C9 as stated: for textToSpeech answered with audio/mpeg and a body of    *)
(* any length, details.hasAudio is true and the text carries a preview     *)
(* that is a strict prefix of the body's base64 encoding, shorter than it  *)
(* and at most 100 characters long.                                        *)
C9_PreviewStrictPrefix ==
    SpeechSynthesised =>
        /\ HasAudioFlag
        /\ \E k \in 0..PreviewLen :
              /\ k < Len(Base64(inv.bytes))
              /\ TextHasPreview(Base64(inv.bytes), k)

(* C9 amended: details.hasAudio is true and the preview in the text is the *)
(* first min(100, L) characters of the body's base64 encoding of length L: *)
(* shorter than the encoding exactly when L > 100 (a body of more than 75  *)
(* bytes), the whole encoding otherwise (empty for an empty body).         *)
C9_PreviewFirstHundred ==
    SpeechSynthesised =>
        LET audio == Base64(inv.bytes)
            k == IF Len(audio) > PreviewLen THEN PreviewLen ELSE Len(audio)
        IN /\ HasAudioFlag
           /\ TextHasPreview(audio, k)
           /\ Len(Text) = k + 4
           /\ (k < Len(audio)) <=> (Len(inv.bytes) > 75)

C9_Witness ==
    /\ SpeechSynthesised
    /\ Len(inv.bytes) > 75
    /\ HasAudioFlag
    /\ Len(Text) = PreviewLen + 4

(* C10: in speechToSpeech and transcribe the fetch of audioUrl precedes    *)
(* the upload to the provider, and when that fetch fails (non-2xx or       *)
(* rejected) the upload is never sent and an error envelope is returned.   *)
C10_FetchBeforeUpload ==
    TwoStepFlow =>
        /\ Len(inv.requests) <= 2
        /\ Len(inv.requests) >= 1 => inv.requests[1].target = "audioUrl"
        /\ Len(inv.requests) = 2 =>
              /\ inv.requests[2].target = "provider"
              /\ inv.audioStatus \in 200..299
        /\ AudioFetchFailure =>
              /\ Done
              /\ IsErrorEnvelope
              /\ Len(inv.requests) = 1

C10_Witness ==
    /\ TwoStepFlow
    /\ Done
    /\ inv.audioStatus = 404
    /\ Len(inv.requests) = 1
    /\ IsErrorEnvelope

\* the `variables` of the GraphQL request sent first
SentVariables == SubSeq(inv.requests[1].body, 4, Len(inv.requests[1].body))

(* C11: linear listIssues with the credential set sends exactly one        *)
(* GraphQL request; its `filter` variable is absent when neither teamId    *)
(* nor projectId is given, restricts on the team id when only teamId is    *)
(* given, and restricts on the project id whenever projectId is given.     *)
C11_ListIssuesFilter ==
    (inv.tool = "linear" /\ inv.action = "listIssues" /\ inv.pc # "idle") =>
        /\ Len(inv.requests) = 1
        /\ inv.requests[1].target = "provider"
        /\ SentVariables[1] = "filter"
        /\ (~Present("teamId") /\ ~Present("projectId")) =>
              SentVariables = <<"filter", "undefined">>
        /\ (Present("teamId") /\ ~Present("projectId")) =>
              Contains(SentVariables, Get(inv.args, "teamId").s)
        /\ Present("projectId") =>
              /\ Contains(SentVariables, Get(inv.args, "projectId").s)
              /\ ~Contains(SentVariables, "T1")

----------------------------------------------------------------------------
\* An error was thrown inside the try block of execute: the credential is
\* set and the action was read, and then a declared action sent nothing
\* (validation), a fetch or a body read was rejected (transport), or a
\* response was non-2xx or carried GraphQL errors (upstream).
ErrorCaught ==
    /\ Done
    /\ CredentialSet
    /\ Get(inv.args, "action").t = "string" /\ Get(inv.args, "action").s # ""
    /\ \/ DeclaredAction /\ inv.requests = <<>>
       \/ inv.rejected # "none"
       \/ AudioFetchFailure
       \/ inv.resp.status # 0 /\ ~(inv.resp.status \in 200..299)
       \/ inv.tool = "linear" /\ Len(inv.json.errors) > 0

ProviderLabel ==
    CASE inv.tool = "github" -> "GitHub"
      [] inv.tool = "elevenlabs" -> "ElevenLabs"
      [] inv.tool = "linear" -> "Linear"
      [] inv.tool = "openai" -> "OpenAI"

(* C12: every error caught inside execute - validation, transport or       *)
(* upstream - gives an envelope with exactly one text block reading        *)
(* "<Provider> error: " followed by the message, and details that are      *)
(* exactly {action, error}: the requested action and the same message.     *)
C12_CaughtErrorShape ==
    ErrorCaught =>
        /\ ReturnedEnvelope
        /\ Len(inv.envelope.content) = 1
        /\ inv.envelope.content[1].type = "text"
        /\ DOMAIN Details = {"action", "error"}
        /\ Details["action"] = <<Get(inv.args, "action").s>>
        /\ Details["error"] # <<>>
        /\ Text = <<ProviderLabel, " error: ">> \o Details["error"]

C12_Witness ==
    /\ ErrorCaught
    /\ inv.rejected = "awaitJson"
    /\ Details["error"] = JsonSyntaxError

----------------------------------------------------------------------------
\* a request of the invocation was rejected or answered non-2xx
RequestFailed ==
    \/ inv.rejected \in {"awaitFetch", "awaitAudioFetch"}
    \/ AudioFetchFailure
    \/ inv.resp.status # 0 /\ ~(inv.resp.status \in 200..299)

(* C13: no request is ever retried: an invocation sends at most one        *)
(* request, at most two for speechToSpeech and transcribe, and once a      *)
(* request of the invocation has failed the invocation sends no further    *)
(* request.                                                                *)
C13_NoRetry ==
    /\ [](inv.pc # "idle" =>
            Len(inv.requests) <= (IF TwoStepFlow THEN 2 ELSE 1))
    /\ [][RequestFailed => (inv'.requests = inv.requests \/ inv'.pc = "idle")]_vars

C13_Witness ==
    /\ Done
    /\ TwoStepFlow
    /\ Len(inv.requests) = 2
    /\ inv.resp.status = 500
    /\ IsErrorEnvelope

----------------------------------------------------------------------------
\* the envelope of a call made without credential
MissingCredentialOutcome ==
    /\ ReturnedEnvelope
    /\ DOMAIN Details = {"error"}
    /\ Details["error"] \in {<<"missing_token">>, <<"missing_api_key">>}

\* the credential carried by the k-th request of the invocation
SentCredential(k) == inv.requests[k].cred[Len(inv.requests[k].cred)]

ActionReadable ==
    Get(inv.args, "action").t = "string" /\ Get(inv.args, "action").s # ""

(* C14: the credential is read from the environment once per invocation,   *)
(* when execute starts, and is not cached: the invocation works with the   *)
(* value the variable has when it starts (whatever it was at construction  *)
(* or during an earlier invocation); the missing-credential outcome and    *)
(* the credential of every request to the provider, the second request of  *)
(* a two-step flow included, follow that value, also when the variable     *)
(* changes while the invocation is suspended.                              *)
C14_CredentialAtStart ==
    /\ [][(inv.pc = "idle" /\ inv'.pc # "idle") => inv'.envAtCall = env[name]]_vars
    /\ [][(inv.pc # "idle" /\ inv'.pc # "idle") => inv'.envAtCall = inv.envAtCall]_vars
    /\ [](inv.pc # "idle" =>
            /\ MissingCredentialOutcome => ~CredentialSet
            /\ (Done /\ ActionReadable /\ ~CredentialSet) => MissingCredentialOutcome
            /\ \A k \in 1..Len(inv.requests) :
                  inv.requests[k].target = "provider" =>
                      /\ inv.requests[k].cred # <<>>
                      /\ SentCredential(k) = inv.envAtCall.s)

C14_Witness ==
    /\ Len(inv.requests) = 2
    /\ inv.requests[2].target = "provider"
    /\ env[name] # inv.envAtCall
    /\ SentCredential(2) = "key1"

----------------------------------------------------------------------------
\* The call r run alone: execute started with r's arguments and the
\* credential the environment held when r started, its requests answered
\* as r's own requests were answered, up to the await r has reached.
RECURSIVE Alone(_, _)
Alone(i, r) ==
    IF i.pc = r.pc \/ i.pc \in {"done", "idle"} THEN i
    ELSE IF r.rejected = i.pc
    THEN Thrown([i EXCEPT !.rejected = i.pc],
                CASE i.pc \in {"awaitFetch", "awaitAudioFetch"} -> FetchFailed
                  [] i.pc = "awaitJson" -> JsonSyntaxError
                  [] OTHER -> BodyReadFailed)
    ELSE CASE i.pc = "awaitAudioFetch" -> Alone(AudioResponded(i, r.audioStatus), r)
           [] i.pc = "awaitBlob" -> Alone(BlobRead(i), r)
           [] i.pc = "awaitFetch" -> Alone(Responded(i, r.resp.status, r.resp.ctype), r)
           [] i.pc = "awaitText" -> Alone(TextRead(i, r.text), r)
           [] i.pc = "awaitJson" -> Alone(JsonRead(i, r.json), r)
           [] i.pc = "awaitBuffer" -> Alone(BufferRead(i, r.bytes), r)

RunAlone(r) == Alone(Start(r.tool, r.args, r.envAtCall), r)

SameAsAlone(r) ==
    r.pc # "idle" =>
        LET a == RunAlone(r) IN
        /\ a.pc = r.pc
        /\ a.outcome = r.outcome
        /\ a.envelope = r.envelope
        /\ a.raised = r.raised
        /\ a.requests = r.requests

(* C15: concurrent invocations are independent: of two invocations (of the *)
(* same tool or of different tools) interleaved at their suspension        *)
(* points, each gives the envelope and sends the requests it gives when    *)
(* run alone with the same arguments, the same credential at its start and *)
(* the same upstream responses; no step of one invocation writes the state *)
(* of the other, nor the environment.                                      *)
C15_Independent ==
    /\ [](SameAsAlone(inv) /\ SameAsAlone(peer))
    /\ [][inv' = inv \/ peer' = peer]_vars
    /\ [][(inv' # inv \/ peer' # peer) => env' = env]_vars

\* both calls suspended at once, on different tools and different awaits
C15_Witness ==
    /\ inv.pc = "awaitBlob"
    /\ peer.pc = "awaitJson"
    /\ inv.tool # peer.tool
    /\ SameAsAlone(inv) /\ SameAsAlone(peer)

----------------------------------------------------------------------------
\* the call is suspended at an await
InFlight == inv.pc \notin {"idle", "done"}

\* a suspended call waits for its own pending network operation only, and
\* with the network at work it reaches the end of execute
C16_Terminates ==
    /\ [](InFlight => ENABLED NetworkStep)
    /\ InFlight ~> Done

(* C16: every invocation runs to completion: provided every request it     *)
(* sends is eventually answered or rejected and every body read finishes,  *)
(* the invocation eventually reaches a terminal state in which it has      *)
(* returned an envelope, and no step of it waits on anything but its own   *)
(* pending network operation.                                              *)
C16_RunsToCompletion ==
    /\ C16_Terminates
    /\ [](Done => ReturnedEnvelope)

====
